---- MODULE Spec2Model ----
(***************************************************************************)
(* Model of src/validator/index.ts: the schema registry, the generic       *)
(* validator (validateObject), the typed caster (safeCastObject) and the   *)
(* file loader (readFileToObject) with its public specialisations.         *)
(*                                                                         *)
(* The compiled Ajv validator, the JSON/YAML parsers and readFile are      *)
(* external collaborators.  What they answer for one call (the read        *)
(* result, the validator's verdict and error list) is an input of the      *)
(* call, drawn from bounded sets.                                          *)
(***************************************************************************)
EXTENDS Integers, Sequences, FiniteSets, TLC

VARIABLES
    registry,        \* names under which ajv holds a schema (lines 24-29)
    DEFAULT_FORMAT,  \* the imported default file format (line 12), either variant
    validateErrors,  \* the `errors` property of each compiled validator
    calls,           \* loads in flight: one record per call slot
    completed        \* the call that finished last: arguments, outcome, events

vars == <<registry, DEFAULT_FORMAT, validateErrors, calls, completed>>

----------------------------------------------------------------------------
(* Bounds *)

MaxErrors == 3      \* longest error list the validator reports
NumObjects == 2     \* distinct caller-owned objects
NumCalls == 2       \* call slots that may be in flight together

----------------------------------------------------------------------------
(* Schema names and registry (lines 15-29) *)

PROJECT_SCHEMA == "project.json"
COLLECTION_SCHEMA == "collection.json"
URL_SCHEMA == "url.json"
BLOCKCHAIN_ADDRESS_SCHEMA == "blockchain-address.json"

ajv == {PROJECT_SCHEMA, COLLECTION_SCHEMA, URL_SCHEMA, BLOCKCHAIN_ADDRESS_SCHEMA}

\* A name the registry never held; the Schema type is erased at run time.
UnregisteredSchema == "unknown.json"

\* Schema names handed to the generic helpers.
SchemaArgs == {PROJECT_SCHEMA, COLLECTION_SCHEMA, UnregisteredSchema}

\* Schema names the public functions pass (lines 109, 118, 128, 138, 158, 175).
PublicSchemas == {PROJECT_SCHEMA, COLLECTION_SCHEMA}

----------------------------------------------------------------------------
(* JavaScript values *)

UNDEFINED == "<undefined>"

\* JavaScript truthiness of a string-or-undefined value.
Truthy(s) == s \notin {UNDEFINED, ""}

EmptyMap == [k \in {} |-> ""]

Put(m, k, v) == [j \in DOMAIN m \cup {k} |-> IF j = k THEN v ELSE m[j]]

\* Generic values: a reference and the content it holds.
Objects == {[ref |-> r, content |-> c] : r \in 1..NumObjects, c \in {"{name: a}"}}

UndefinedValue == [ref |-> 0, content |-> UNDEFINED]

----------------------------------------------------------------------------
(* What the compiled validator reports (ErrorObject: params.missingProperty *)
(* and message are both optional; validate.errors may be null)             *)

PropNames == {"name", "version"}
Messages == {"must be string", "must match format"}

ErrorObjects ==
    [missingProperty : PropNames \cup {UNDEFINED},
     message : Messages \cup {UNDEFINED, ""}]

ErrorLists(n) == UNION {[1..k -> ErrorObjects] : k \in 0..n}

NullErrors == [isNull |-> TRUE, list |-> <<>>]

PassReport == [pass |-> TRUE, errors |-> NullErrors]

Reports(n) ==
    {PassReport, [pass |-> FALSE, errors |-> NullErrors]}
    \cup {[pass |-> FALSE, errors |-> [isNull |-> FALSE, list |-> l]] : l \in ErrorLists(n)}

----------------------------------------------------------------------------
(* Outcomes and the events a call performs, in order *)

NoResult == [valid |-> FALSE, errors |-> EmptyMap]

Return(result, value) ==
    [kind |-> "return", result |-> result, value |-> value, message |-> ""]

Throw(message) ==
    [kind |-> "throw", result |-> NoResult, value |-> UndefinedValue, message |-> message]

Pending == [kind |-> "pending", result |-> NoResult, value |-> UndefinedValue, message |-> ""]

Ev(name, s) == [ev |-> name, s |-> s, errors |-> EmptyMap]

Warn(errors) == [ev |-> "warn", s |-> "", errors |-> errors]

----------------------------------------------------------------------------
(* validateObject (lines 46-65) *)

getSchema(reg, schemaName) == schemaName \in reg

SchemaNotFound_wrongShape == [valid |-> FALSE, errors |-> [other |-> "Schema not found"]]

SchemaNotFound == [valid |-> FALSE, errors |-> [schema |-> "Schema not found"]]

ErrorKey_alwaysOther(e) == "other"

\* line 56: e.params.missingProperty || "other"
ErrorKey(e) ==
    IF Truthy(e.missingProperty) THEN e.missingProperty ELSE "other"

RECURSIVE EnumerateErrors_firstWins(_, _)
EnumerateErrors_firstWins(list, errors) ==
    IF list = <<>> THEN errors
    ELSE LET e == Head(list)
             key == ErrorKey(e)
         IN EnumerateErrors_firstWins(Tail(list),
                IF Truthy(key) /\ Truthy(e.message) /\ key \notin DOMAIN errors
                THEN Put(errors, key, e.message)
                ELSE errors)

\* lines 55-60: the loop over the reported errors, later entries overwriting
RECURSIVE EnumerateErrors(_, _)
EnumerateErrors(list, errors) ==
    IF list = <<>> THEN errors
    ELSE LET e == Head(list)
             key == ErrorKey(e)
         IN EnumerateErrors(Tail(list),
                IF Truthy(key) /\ Truthy(e.message)
                THEN Put(errors, key, e.message)
                ELSE errors)

\* line 55: validate.errors || []
ErrorsOrEmpty(errs) == IF errs.isNull THEN <<>> ELSE errs.list

\* line 52: calling validate(obj) stores what it found in validate.errors
RunValidator(ve, schemaName, rep) == [ve EXCEPT ![schemaName] = rep.errors]

validateObject_staleErrors(obj, schemaName, reg, rep, ve) ==
    IF ~getSchema(reg, schemaName)
    THEN [result |-> SchemaNotFound, trace |-> <<Ev("getSchema", schemaName)>>, ve |-> ve]
    ELSE LET after == RunValidator(ve, schemaName, rep)
             trace == <<Ev("getSchema", schemaName), Ev("validate", obj.content)>>
         IN IF ~rep.pass
            THEN [result |-> [valid |-> FALSE,
                              errors |-> EnumerateErrors(ErrorsOrEmpty(ve[schemaName]), EmptyMap)],
                  trace |-> trace, ve |-> after]
            ELSE [result |-> [valid |-> TRUE, errors |-> EmptyMap],
                  trace |-> trace, ve |-> after]

validateObject(obj, schemaName, reg, rep, ve) ==
    IF ~getSchema(reg, schemaName)
    THEN [result |-> SchemaNotFound, trace |-> <<Ev("getSchema", schemaName)>>, ve |-> ve]
    ELSE LET after == RunValidator(ve, schemaName, rep)
             trace == <<Ev("getSchema", schemaName), Ev("validate", obj.content)>>
         IN IF ~rep.pass
            THEN [result |-> [valid |-> FALSE,
                              errors |-> EnumerateErrors(ErrorsOrEmpty(after[schemaName]), EmptyMap)],
                  trace |-> trace, ve |-> after]
            ELSE [result |-> [valid |-> TRUE, errors |-> EmptyMap],
                  trace |-> trace, ve |-> after]

----------------------------------------------------------------------------
(* safeCastObject (lines 67-74) *)

safeCastObject_copies(obj, schemaName, reg, rep, ve) ==
    LET r == validateObject(obj, schemaName, reg, rep, ve)
    IN IF ~r.result.valid
       THEN [out |-> Throw("Invalid " \o schemaName),
             trace |-> r.trace \o <<Warn(r.result.errors), Ev("throw", "Invalid " \o schemaName)>>,
             ve |-> r.ve]
       ELSE [out |-> Return(NoResult, [obj EXCEPT !.ref = 0]), trace |-> r.trace, ve |-> r.ve]

safeCastObject_silent(obj, schemaName, reg, rep, ve) ==
    LET r == validateObject(obj, schemaName, reg, rep, ve)
    IN IF ~r.result.valid
       THEN [out |-> Throw("Invalid " \o schemaName),
             trace |-> r.trace \o <<Ev("throw", "Invalid " \o schemaName)>>,
             ve |-> r.ve]
       ELSE [out |-> Return(NoResult, obj), trace |-> r.trace, ve |-> r.ve]

safeCastObject(obj, schemaName, reg, rep, ve) ==
    LET r == validateObject(obj, schemaName, reg, rep, ve)
    IN IF ~r.result.valid
       THEN [out |-> Throw("Invalid " \o schemaName),
             trace |-> r.trace \o <<Warn(r.result.errors), Ev("throw", "Invalid " \o schemaName)>>,
             ve |-> r.ve]
       ELSE [out |-> Return(NoResult, obj), trace |-> r.trace, ve |-> r.ve]

----------------------------------------------------------------------------
(* File contents and the two parsers (lines 88-98) *)

JSON_TEXT == "{\"name\": \"a\"}"
YAML_TEXT == "name: a"
SCALAR_TEXT == "3"
BROKEN_TEXT == "{name: ["

Texts == {JSON_TEXT, YAML_TEXT, SCALAR_TEXT, BROKEN_TEXT}

Parsed(content) == [ok |-> TRUE, value |-> [ref |-> 0, content |-> content], message |-> ""]

ParseError(message) == [ok |-> FALSE, value |-> UndefinedValue, message |-> message]

\* JSON.parse: strict syntax only
JSONparse(text) ==
    CASE text = JSON_TEXT -> Parsed("{name: a}")
      [] text = SCALAR_TEXT -> Parsed("3")
      [] OTHER -> ParseError("SyntaxError: Unexpected token")

\* YAML.parse: the indented syntax, of which the strict syntax is a subset
YAMLparse(text) ==
    CASE text = JSON_TEXT -> Parsed("{name: a}")
      [] text = YAML_TEXT -> Parsed("{name: a}")
      [] text = SCALAR_TEXT -> Parsed("3")
      [] OTHER -> ParseError("YAMLParseError: Flow map must end with a }")

\* readFile either yields the text or rejects
ReadResults ==
    {[ok |-> FALSE, text |-> ""]} \cup {[ok |-> TRUE, text |-> t] : t \in Texts}

\* utils/common.js assertNever: raises the unreachable-state error
assertNever(x) == Throw("Unreachable: " \o x)

\* ReadOptions (lines 141-143): omitted, given without a format, or given
\* with one; a caller may force a value outside FileFormat through a cast.
NoOpts == [present |-> FALSE, format |-> UNDEFINED]

AllOpts ==
    {NoOpts} \cup {[present |-> TRUE, format |-> f] : f \in {UNDEFINED, "JSON", "YAML", "TOML"}}

ResolveFormat_noDefault(opts, default) == opts.format

\* lines 157, 174: opts?.format ?? DEFAULT_FORMAT
ResolveFormat(opts, default) ==
    IF ~opts.present THEN default
    ELSE IF opts.format = UNDEFINED THEN default ELSE opts.format

Dispatch_swallowsParseError(format, text) ==
    LET parser == IF format = "JSON" THEN "JSON.parse" ELSE "YAML.parse"
        p == IF format = "JSON" THEN JSONparse(text) ELSE YAMLparse(text)
    IN IF format \in {"JSON", "YAML"}
       THEN [threw |-> FALSE, message |-> "", obj |-> p.value, trace |-> <<Ev(parser, text)>>]
       ELSE [threw |-> TRUE, message |-> assertNever(format).message,
             obj |-> UndefinedValue, trace |-> <<Ev("assertNever", format)>>]

Dispatch_fallsThrough(format, text) ==
    LET parser == IF format = "JSON" THEN "JSON.parse" ELSE "YAML.parse"
        p == IF format = "JSON" THEN JSONparse(text) ELSE YAMLparse(text)
    IN IF format \in {"JSON", "YAML"}
       THEN [threw |-> ~p.ok, message |-> p.message, obj |-> p.value,
             trace |-> <<Ev(parser, text)>>]
       ELSE [threw |-> FALSE, message |-> "", obj |-> UndefinedValue, trace |-> <<>>]

\* lines 89-98: the dispatch on the format
Dispatch(format, text) ==
    IF format = "JSON"
    THEN LET p == JSONparse(text)
         IN [threw |-> ~p.ok, message |-> p.message, obj |-> p.value,
             trace |-> <<Ev("JSON.parse", text)>>]
    ELSE IF format = "YAML"
    THEN LET p == YAMLparse(text)
         IN [threw |-> ~p.ok, message |-> p.message, obj |-> p.value,
             trace |-> <<Ev("YAML.parse", text)>>]
    ELSE LET a == assertNever(format)
         IN [threw |-> a.kind = "throw", message |-> a.message, obj |-> UndefinedValue,
             trace |-> <<Ev("assertNever", format)>>]

\* readFileToObject (lines 83-101), from the moment readFile settles
readFileToObject(read, format, schemaName, reg, rep, ve) ==
    LET start == <<Ev("readFile", "utf-8")>>
    IN IF ~read.ok
       THEN [out |-> Throw("ENOENT: no such file or directory"), trace |-> start, ve |-> ve]
       ELSE LET d == Dispatch(format, read.text)
            IN IF d.threw
               THEN [out |-> Throw(d.message), trace |-> start \o d.trace, ve |-> ve]
               ELSE LET r == safeCastObject(d.obj, schemaName, reg, rep, ve)
                    IN [out |-> r.out, trace |-> start \o d.trace \o r.trace, ve |-> r.ve]

\* The load gets as far as running the compiled validator.
ReachesValidator(read, format, schemaName, reg) ==
    /\ read.ok
    /\ ~Dispatch(format, read.text).threw
    /\ getSchema(reg, schemaName)

----------------------------------------------------------------------------
(* Calls *)

Calls == 1..NumCalls

NoRead == [ok |-> FALSE, text |-> ""]

Idle ==
    [op |-> "none", st |-> "idle", obj |-> UndefinedValue, schemaName |-> "",
     opts |-> NoOpts, format |-> UNDEFINED, read |-> NoRead, rep |-> PassReport,
     out |-> Pending, trace |-> <<>>]

FreshErrors == [s \in ajv |-> NullErrors]

Init ==
    /\ registry = ajv
    /\ DEFAULT_FORMAT \in {"JSON", "YAML"}
    /\ validateErrors = FreshErrors
    /\ calls = [c \in Calls |-> Idle]
    /\ completed = Idle

\* validateProject / validateCollection (lines 108-119) and the generic helper
Validate(schemas, reps) ==
    /\ \E obj \in Objects, schemaName \in schemas, rep \in reps :
         LET r == validateObject(obj, schemaName, registry, rep, validateErrors)
         IN /\ completed' =
                   [Idle EXCEPT !.op = "validate", !.st = "done", !.obj = obj,
                                !.schemaName = schemaName, !.rep = rep,
                                !.out = Return(r.result, UndefinedValue),
                                !.trace = r.trace]
            /\ validateErrors' = r.ve
    /\ UNCHANGED <<registry, DEFAULT_FORMAT, calls>>

\* safeCastProject / safeCastCollection (lines 127-139) and the generic helper
Cast(schemas, reps) ==
    /\ \E obj \in Objects, schemaName \in schemas, rep \in reps :
         LET r == safeCastObject(obj, schemaName, registry, rep, validateErrors)
         IN /\ completed' =
                   [Idle EXCEPT !.op = "cast", !.st = "done", !.obj = obj,
                                !.schemaName = schemaName, !.rep = rep,
                                !.out = r.out, !.trace = r.trace]
            /\ validateErrors' = r.ve
    /\ UNCHANGED <<registry, DEFAULT_FORMAT, calls>>

\* readProjectFile / readCollectionFile (lines 151-177) up to the await of
\* readFile (line 88), where the call suspends
LoadIssue(c, optsSet) ==
    /\ calls[c].st = "idle"
    /\ \E schemaName \in PublicSchemas, opts \in optsSet :
         calls' = [calls EXCEPT ![c] =
             [Idle EXCEPT !.op = "load", !.st = "reading", !.schemaName = schemaName,
                          !.opts = opts, !.format = ResolveFormat(opts, DEFAULT_FORMAT),
                          !.trace = <<Ev("readFile", "utf-8")>>]]
    /\ UNCHANGED <<registry, DEFAULT_FORMAT, validateErrors, completed>>

\* readFile settles and the rest of readFileToObject (lines 88-100) runs
LoadResume(c, reads, reps) ==
    /\ calls[c].st = "reading"
    /\ \E read \in reads, rep \in reps :
         /\ ReachesValidator(read, calls[c].format, calls[c].schemaName, registry)
               \/ rep = PassReport
         /\ LET r == readFileToObject(read, calls[c].format, calls[c].schemaName,
                                      registry, rep, validateErrors)
            IN /\ completed' = [calls[c] EXCEPT !.st = "done", !.read = read, !.rep = rep,
                                                !.out = r.out, !.trace = r.trace]
               /\ validateErrors' = r.ve
    /\ calls' = [calls EXCEPT ![c] = Idle]
    /\ UNCHANGED <<registry, DEFAULT_FORMAT>>

\* One call of the generic validator or caster from the initial state, over
\* every error list.
NextCall ==
    \/ completed.st = "idle" /\ Validate(SchemaArgs, Reports(MaxErrors))
    \/ completed.st = "idle" /\ Cast(SchemaArgs, Reports(MaxErrors))

SpecCall == Init /\ [][NextCall]_vars

\* What the validator answers in the specifications about loading.
LoadReports ==
    Reports(0) \cup
    {[pass |-> FALSE, errors |-> [isNull |-> FALSE, list |->
        <<[missingProperty |-> "name", message |-> "must have required property"]>>]]}

\* One load at a time, over every option, file content and read result.
NextLoad ==
    \/ LoadIssue(1, AllOpts)
    \/ LoadResume(1, ReadResults, LoadReports)

SpecLoad == Init /\ [][NextLoad]_vars

\* Inputs of the interleaved calls: a value the validator accepts or one it
\* rejects, a file that is missing, well-formed or malformed, the format
\* omitted or given.
SomeReports == (LoadReports \ Reports(0)) \cup {PassReport}

SomeReads == {r \in ReadResults : r.ok => r.text \in {JSON_TEXT, BROKEN_TEXT}}

SomeOpts == {o \in AllOpts : o.present => o.format = "JSON"}

\* Public calls interleaved: loads suspend in their slots while validate,
\* cast and other loads run.
Next ==
    \/ Validate(PublicSchemas, SomeReports)
    \/ Cast(PublicSchemas, SomeReports)
    \/ \E c \in Calls : LoadIssue(c, SomeOpts)
    \/ \E c \in Calls : LoadResume(c, SomeReads, SomeReports)

Spec == Init /\ [][Next]_vars

----------------------------------------------------------------------------
(* Properties of the generic validator and the typed caster *)

Done(op) == {c \in {completed} : c.st = "done" /\ c.op = op}

Registered(c) == c.schemaName \in ajv

\* The violations the validator reported to call c, in its order.
Reported(c) == ErrorsOrEmpty(c.rep.errors)

\* The call ran the compiled validator and it rejected the value.
Rejected(c) == Registered(c) /\ ~c.rep.pass

RECURSIVE NonMissing(_)
NonMissing(list) ==
    IF list = <<>> THEN <<>>
    ELSE IF Truthy(Head(list).missingProperty) THEN NonMissing(Tail(list))
         ELSE <<Head(list)>> \o NonMissing(Tail(list))

RECURSIVE WithMessage(_)
WithMessage(list) ==
    IF list = <<>> THEN <<>>
    ELSE IF Truthy(Head(list).message) THEN <<Head(list)>> \o WithMessage(Tail(list))
         ELSE WithMessage(Tail(list))

Last(list) == list[Len(list)]

HasEvent(trace, name) == \E i \in 1..Len(trace) : trace[i].ev = name

\* C1: every ValidationResult a validate call returns has valid = TRUE
\* exactly when its errors map is empty.
C1_ValidIffErrorsEmpty ==
    \A c \in Done("validate") :
        c.out.result.valid <=> (DOMAIN c.out.result.errors = {})

\* C2: a validate call naming a schema the registry does not hold returns
\* exactly {valid: false, errors: {schema: "Schema not found"}}, does not
\* throw, and does not run a compiled validator.
C2_SchemaNotFound ==
    \A c \in Done("validate") :
        ~Registered(c) =>
            /\ c.out.kind = "return"
            /\ c.out.result.valid = FALSE
            /\ DOMAIN c.out.result.errors = {"schema"}
            /\ c.out.result.errors["schema"] = "Schema not found"
            /\ ~HasEvent(c.trace, "validate")

C2_Witness ==
    \E c \in Done("validate") : ~Registered(c) /\ ~c.rep.pass

\* The field-error map validate* gives for the input of call c.
FieldErrors(c) ==
    IF ~Registered(c) THEN [schema |-> "Schema not found"]
    ELSE EnumerateErrors(Reported(c), EmptyMap)

\* C3: a cast call on an invalid input (rejected by the validator, or schema
\* not found) throws an error with message "Invalid " + schemaName, logs a
\* warning holding the field-error map before the throw, and returns nothing.
C3_CastInvalidThrows ==
    \A c \in Done("cast") :
        (~Registered(c) \/ Rejected(c)) =>
            LET t == c.trace
            IN /\ c.out.kind = "throw"
               /\ c.out.message = "Invalid " \o c.schemaName
               /\ c.out.value = UndefinedValue
               /\ Len(t) >= 2
               /\ t[Len(t)] = Ev("throw", "Invalid " \o c.schemaName)
               /\ t[Len(t) - 1] = Warn(FieldErrors(c))

C3_Witness ==
    \E c \in Done("cast") : Rejected(c) /\ DOMAIN FieldErrors(c) = {"name", "other"}

\* C4: a cast call on an input the validator accepts returns, without
\* throwing, the very input value (same reference, same content) and logs
\* nothing.
C4_CastValidReturnsInput ==
    \A c \in Done("cast") :
        (Registered(c) /\ c.rep.pass) =>
            /\ c.out.kind = "return"
            /\ c.out.value = c.obj
            /\ ~HasEvent(c.trace, "warn")
            /\ ~HasEvent(c.trace, "throw")

C4_Witness ==
    \E c \in Done("cast") :
        Registered(c) /\ c.rep.pass /\ c.out.value.ref = NumObjects

\* C5: whenever the validator reports, anywhere in its list, a missing
\* required property p with a message, the errors map of the validate call
\* has key p with a non-empty message.
C5_MissingPropertyKeyed ==
    \A c \in Done("validate") :
        Rejected(c) =>
            \A i \in 1..Len(Reported(c)) :
                LET e == Reported(c)[i]
                IN (Truthy(e.missingProperty) /\ Truthy(e.message)) =>
                      /\ e.missingProperty \in DOMAIN c.out.result.errors
                      /\ Truthy(c.out.result.errors[e.missingProperty])

C5_Witness ==
    \E c \in Done("validate") :
        /\ Rejected(c)
        /\ Len(Reported(c)) = 3
        /\ ~Truthy(Reported(c)[1].missingProperty) /\ Truthy(Reported(c)[1].message)
        /\ Reported(c)[2].missingProperty = "name" /\ Truthy(Reported(c)[2].message)
        /\ ~Truthy(Reported(c)[3].missingProperty) /\ Truthy(Reported(c)[3].message)
        /\ "name" \in DOMAIN c.out.result.errors

\* C6 as stated: with two or more non-missing-property violations the errors
\* map has the key "other" and its message is that of the last such
\* violation in the reported order.
C6_OtherIsLastViolation ==
    \A c \in Done("validate") :
        (Rejected(c) /\ Len(NonMissing(Reported(c))) >= 2) =>
            /\ "other" \in DOMAIN c.out.result.errors
            /\ c.out.result.errors["other"] = Last(NonMissing(Reported(c))).message

\* C6 amended: with two or more non-missing-property violations the key
\* "other" is present exactly when one of them carries a non-empty message,
\* its message is that of the last of them carrying one, and the map's keys
\* are the keys (missing-property name or "other") of the violations that
\* carry a non-empty message.
C6_OtherIsLastWithMessage ==
    \A c \in Done("validate") :
        (Rejected(c) /\ Len(NonMissing(Reported(c))) >= 2) =>
            LET said == WithMessage(NonMissing(Reported(c)))
                errors == c.out.result.errors
            IN /\ ("other" \in DOMAIN errors) <=> (said # <<>>)
               /\ said # <<>> => errors["other"] = Last(said).message
               /\ DOMAIN errors =
                    {ErrorKey(e) : e \in {x \in {Reported(c)[i] : i \in 1..Len(Reported(c))} :
                                              Truthy(x.message)}}

C6_Witness ==
    \E c \in Done("validate") :
        /\ Rejected(c)
        /\ Len(Reported(c)) = 3
        /\ NonMissing(Reported(c)) = <<Reported(c)[1], Reported(c)[3]>>
        /\ Reported(c)[1].message = "must be string"
        /\ Reported(c)[2].message = "must be string"
        /\ Reported(c)[3].message = "must match format"
        /\ c.out.result.errors["other"] = "must match format"
        /\ Cardinality(DOMAIN c.out.result.errors) = 2

----------------------------------------------------------------------------
(* Properties of the file loader *)

\* What the parser chosen by the format makes of the text call c read.
ParseOutcome(c) == IF c.format = "JSON" THEN JSONparse(c.read.text) ELSE YAMLparse(c.read.text)

\* Call c read a file that is malformed for its format.
Malformed(c) == c.read.ok /\ c.format \in {"JSON", "YAML"} /\ ~ParseOutcome(c).ok

\* The step of the load an event belongs to: read, parse, validate, cast.
Stage(ev) ==
    CASE ev = "readFile" -> 1
      [] ev \in {"JSON.parse", "YAML.parse", "assertNever"} -> 2
      [] ev = "getSchema" -> 3
      [] ev = "validate" -> 4
      [] ev = "warn" -> 5
      [] OTHER -> 6

Validated(trace) == HasEvent(trace, "getSchema") \/ HasEvent(trace, "validate")

\* C7: a load of a malformed file throws the parser's error, which is not
\* "Invalid <schemaName>", without invoking the validator or logging a
\* warning; every load goes read, parse, validate, cast in that order, and a
\* failed read or parse ends it on the spot.
C7_ParseErrorBeforeValidation ==
    \A c \in Done("load") :
        LET t == c.trace
        IN /\ Malformed(c) =>
                /\ c.out = Throw(ParseOutcome(c).message)
                /\ c.out.message # "Invalid " \o c.schemaName
                /\ ~Validated(t) /\ ~HasEvent(t, "warn")
                /\ Len(t) = 2 /\ t[2].ev \in {"JSON.parse", "YAML.parse"}
           /\ t[1].ev = "readFile"
           /\ \A i, j \in 1..Len(t) : i < j => Stage(t[i].ev) < Stage(t[j].ev)
           /\ ~c.read.ok => (Len(t) = 1 /\ c.out.kind = "throw")
           /\ HasEvent(t, "warn") => c.out.kind = "throw"

C7_Witness ==
    \E c \in Done("load") :
        Malformed(c) /\ c.format = "JSON" /\ c.read.text = YAML_TEXT /\ c.out.kind = "throw"

\* C8: a load whose format is neither known variant fails at the dispatch
\* with the unreachable-state error: no parser runs, the validator and the
\* caster are not invoked, nothing is returned.
C8_UnknownFormatIsFatal ==
    \A c \in Done("load") :
        (c.read.ok /\ c.format \notin {"JSON", "YAML"}) =>
            /\ c.out.kind = "throw"
            /\ c.out.value = UndefinedValue
            /\ c.trace = <<Ev("readFile", "utf-8"), Ev("assertNever", c.format)>>
            /\ ~Validated(c.trace)

C8_Witness ==
    \E c \in Done("load") : c.read.ok /\ c.format = "TOML" /\ c.out.kind = "throw"

\* The same load with the default format passed explicitly.
WithExplicitDefault(c) ==
    readFileToObject(c.read,
                     ResolveFormat([present |-> TRUE, format |-> DEFAULT_FORMAT], DEFAULT_FORMAT),
                     c.schemaName, registry, c.rep, FreshErrors)

\* C9: a load called without a format (options omitted, or given without
\* one) uses the default format's parser and the same schema, and returns or
\* throws exactly what the load with the default format given would.
C9_OmittedFormatIsDefault ==
    \A c \in Done("load") :
        (~c.opts.present \/ c.opts.format = UNDEFINED) =>
            /\ c.format = DEFAULT_FORMAT
            /\ c.out = WithExplicitDefault(c).out
            /\ c.trace = WithExplicitDefault(c).trace

C9_Witness ==
    \E c \in Done("load") :
        /\ c.opts = [present |-> TRUE, format |-> UNDEFINED]
        /\ DEFAULT_FORMAT = "YAML" /\ c.read.ok /\ c.read.text = YAML_TEXT
        /\ c.out.kind = "return" /\ c.out.value.content = "{name: a}"

----------------------------------------------------------------------------
(* Interleaved calls *)

\* What call c gives when it runs alone, on a validator no other call used.
Alone(c) ==
    IF c.op = "validate"
    THEN LET r == validateObject(c.obj, c.schemaName, ajv, c.rep, FreshErrors)
         IN [out |-> Return(r.result, UndefinedValue), trace |-> r.trace]
    ELSE IF c.op = "cast"
    THEN LET r == safeCastObject(c.obj, c.schemaName, ajv, c.rep, FreshErrors)
         IN [out |-> r.out, trace |-> r.trace]
    ELSE LET r == readFileToObject(c.read, ResolveFormat(c.opts, DEFAULT_FORMAT),
                                   c.schemaName, ajv, c.rep, FreshErrors)
         IN [out |-> r.out, trace |-> r.trace]

\* C10: under every interleaving a load in flight has done nothing but issue
\* its read, the registry holds the four schemas of initialisation, and the
\* outcome and events of each finished call are those of the call run alone.
C10_CallsDoNotInterfere ==
    /\ registry = {"project.json", "collection.json", "url.json", "blockchain-address.json"}
    /\ \A c \in Calls :
          /\ calls[c].st \in {"idle", "reading"}
          /\ calls[c].st = "reading" =>
                (calls[c].trace = <<Ev("readFile", "utf-8")>> /\ calls[c].out = Pending)
    /\ completed.st = "done" =>
          /\ completed.out = Alone(completed).out
          /\ completed.trace = Alone(completed).trace

C10_Witness ==
    /\ completed.st = "done" /\ completed.op = "load"
    /\ completed.schemaName = PROJECT_SCHEMA
    /\ HasEvent(completed.trace, "warn")
    /\ \E c \in Calls : calls[c].st = "reading" /\ calls[c].schemaName = PROJECT_SCHEMA
    /\ ~validateErrors[COLLECTION_SCHEMA].isNull

====
